---------------------------- MODULE Spec2Model ----------------------------
(***************************************************************************)
(* Smooth-Trackball-Scrolling-Python: the scroll shaping engine            *)
(* (src/scroll_logic.py) and the daemon that drives it (src/daemon.py).    *)
(*                                                                         *)
(* Python floats are modelled as exact rationals <<n, d>> (d > 0, lowest   *)
(* terms); only math.sqrt of a non-square is rounded (down, to SqrtBits     *)
(* binary digits).                                                         *)
(***************************************************************************)
EXTENDS Integers, Sequences, FiniteSets, TLC

VARIABLES
    cfg,        \* the configuration read at start-up; never written afterwards
    state,      \* SmoothScrollLogic.state (ScrollState)
    smoothing,  \* SmoothScrollLogic.smoothing (SmoothingWindow)
    lastCall,   \* engine driver: the last engine call, its arguments' effect and its result
                \* (keyboard driver: the last key event delivered)
    tally,      \* engine driver: since the last activate(), the number of ticks and, per
                \* axis, (sum of the shaped values) - (sum of the integer ticks returned)
                \* (keyboard driver: the keys that are physically down)
    running,            \* SmoothScrollDaemon.running
    now,                \* time.time(), in milliseconds
    is_holding,         \* SmoothScrollDaemon.is_holding
    button_press_time,  \* SmoothScrollDaemon.button_press_time
    hotkey1_pressed,    \* SmoothScrollDaemon.hotkey1_pressed
    hotkey2_pressed,    \* SmoothScrollDaemon.hotkey2_pressed
    mouse,      \* the mouse reader thread: where it is in _mouse_reader_loop, its event
    ticker,     \* the main thread: where it is in _process_scroll_thread, its locals
    uinput,     \* the virtual device: whether self.uinput_device holds one (or None),
                \* whether it is open, the events written to it since the last sync
                \* (the report it is assembling)
    tap,        \* observation only: what happened since the HK1 button went down
    mouse_device,   \* SmoothScrollDaemon.mouse_device: NoDevice or a handle of the real mouse
    handles,    \* the kernel's view of the real mouse: the handles opened so far, those
                \* still open, those that hold the grab
    stopping    \* where the thread that shuts the daemon down is in signal_handler / stop

engineVars == <<state, smoothing>>
driverVars == <<lastCall, tally>>
grabVars == <<mouse_device, handles, stopping>>
daemonVars == <<running, now, is_holding, button_press_time, hotkey1_pressed,
                hotkey2_pressed, mouse, ticker, uinput, tap, grabVars>>
vars == <<cfg, state, smoothing, lastCall, tally, running, now, is_holding,
          button_press_time, hotkey1_pressed, hotkey2_pressed, mouse, ticker, uinput, tap,
          mouse_device, handles, stopping>>

-----------------------------------------------------------------------------
(* Bounds of the model *)

\* binary digits math.sqrt keeps after the point on a non-square argument
SqrtBits == 3
\* total |delta_x| + |delta_y| fed to add_mouse_movement between two activate() calls
MaxMotion == 3
\* process_scroll calls followed between two activate() calls
MaxTicks == 3
\* largest |accumulator_wheel| an add_wheel_input call may produce
MaxWheel == 3
\* largest |accumulator_x|, |accumulator_y| the mouse may build up between two ticks
MaxPending == 1
\* milliseconds of the daemon's life that are followed
MaxElapsed == 2
\* handles of the real mouse the daemon opens in its life, the first included
MaxHandles == 3
\* add_mouse_movement calls of a stream between two ticks
MaxBurst == 2
\* vertical motion of a stream that is counted since activate(); above, it counts
\* as that much
MaxRise == 12
\* largest |x|, |y| handed to _apply_acceleration
MaxSpeed == 3

-----------------------------------------------------------------------------
(* Rational arithmetic: the model of Python's float *)

Abs(i) == IF i < 0 THEN -i ELSE i

RECURSIVE GCD(_, _)
GCD(a, b) == IF b = 0 THEN a ELSE GCD(b, a % b)

Rat(n, d) ==
    LET s == IF d < 0 THEN -1 ELSE 1
        g == GCD(Abs(n), Abs(d))
    IN  <<(s * n) \div g, (s * d) \div g>>

RInt(i) == <<i, 1>>
Zero == <<0, 1>>
RAdd(a, b) ==
    LET g == GCD(a[2], b[2])
    IN  Rat(a[1] * (b[2] \div g) + b[1] * (a[2] \div g), (a[2] \div g) * b[2])
RNeg(a) == <<-a[1], a[2]>>
RSub(a, b) == RAdd(a, RNeg(b))
RMul(a, b) ==
    LET g == GCD(Abs(a[1]), b[2])
        h == GCD(Abs(b[1]), a[2])
    IN  Rat((a[1] \div g) * (b[1] \div h), (a[2] \div h) * (b[2] \div g))
RInv(a) == IF a[1] < 0 THEN <<-a[2], -a[1]>> ELSE <<a[2], a[1]>>
RDiv(a, b) == RMul(a, RInv(b))
RAbs(a) == <<Abs(a[1]), a[2]>>
RLt(a, b) == a[1] * b[2] < b[1] * a[2]
RGt(a, b) == RLt(b, a)
RMax(a, b) == IF RLt(a, b) THEN b ELSE a
RMin(a, b) == IF RLt(a, b) THEN a ELSE b

RECURSIVE SumSeq(_)
SumSeq(s) == IF s = <<>> THEN Zero ELSE RAdd(Head(s), SumSeq(Tail(s)))

\* floor of the square root of a natural number, by bisection on [lo, hi)
RECURSIVE ISqrtIn(_, _, _)
ISqrtIn(m, lo, hi) ==
    IF hi - lo <= 1 THEN lo
    ELSE LET mid == (lo + hi) \div 2
         IN  IF mid * mid <= m THEN ISqrtIn(m, mid, hi) ELSE ISqrtIn(m, lo, mid)

ISqrt(m) == ISqrtIn(m, 0, m + 1)

\* math.sqrt: exact on squares of rationals, otherwise rounded down to a multiple
\* of 1 / 2^SqrtBits
sqrt(a) ==
    LET rn == ISqrt(a[1])
        rd == ISqrt(a[2])
        res == 2 ^ SqrtBits
    IN  IF rn * rn = a[1] /\ rd * rd = a[2]
        THEN Rat(rn, rd)
        ELSE Rat(ISqrt((a[1] * res * res) \div a[2]), res)

\* round(x) of Python 3 on a float: nearest integer, ties to the even one
RoundHalfAway(a) ==
    IF a[1] >= 0 THEN (2 * a[1] + a[2]) \div (2 * a[2])
    ELSE -((2 * (-a[1]) + a[2]) \div (2 * a[2]))

round(a) ==
    LET q == (2 * a[1] + a[2]) \div (2 * a[2])
        tie == (2 * a[1] + a[2]) % (2 * a[2]) = 0
    IN  IF tie /\ q % 2 = 1 THEN q - 1 ELSE q

\* int(x) of Python on a float: truncation toward zero
int(a) == IF a[1] >= 0 THEN a[1] \div a[2] ELSE -((-a[1]) \div a[2])


-----------------------------------------------------------------------------
(* SmoothScrollLogic.__init__: the parameters derived from the configuration *)

sensitivity(c) == c.sensitivity
refresh_interval(c) == Rat(c.refreshInterval, 1000)
max_size(c) == c.smoothingWindowMaxSize
snap_on(c) == c.snapOnByDefault
snap_ratio(c) == c.snapRatio
snap_threshold(c) == c.snapThreshold
acceleration_on(c) == c.accelerationOn
acceleration_scale(c) == RMul(c.accelerationScale, refresh_interval(c))
accel_p(c) == RDiv(c.accelerationBlend, acceleration_scale(c))
accel_q(c) == RAdd(c.accelerationBlend, RInt(1))
accel_r(c) == acceleration_scale(c)

\* ScrollState() as constructed: every field at its default
ScrollState ==
    [active |-> FALSE,
     accumulator_x |-> Zero, accumulator_y |-> Zero, accumulator_wheel |-> Zero,
     remainder_x |-> Zero, remainder_y |-> Zero,
     snap_state |-> 0, snap_deviation |-> Zero]

\* SmoothingWindow(max_size) as constructed: two empty deques
SmoothingWindow == [window_x |-> <<>>, window_y |-> <<>>]

-----------------------------------------------------------------------------
(* SmoothingWindow *)

\* deque(maxlen = n).append(v): the oldest entry falls out of a full deque
append(w, n, v) == IF Len(w) >= n THEN Append(Tail(w), v) ELSE Append(w, v)

push(sm, n, x, y) ==
    [window_x |-> append(sm.window_x, n, x), window_y |-> append(sm.window_y, n, y)]

mean(w) == IF w = <<>> THEN Zero ELSE RDiv(SumSeq(w), RInt(Len(w)))
mean_x(sm) == mean(sm.window_x)
mean_y(sm) == mean(sm.window_y)
reset(sm) == [window_x |-> <<>>, window_y |-> <<>>]

-----------------------------------------------------------------------------
(* SmoothScrollLogic *)

is_active(st) == st.active

\* mutant of activate: the smoothing window survives the activation
activate_keeping_window(st, sm) ==
    [state |-> [st EXCEPT !.active = TRUE,
                          !.accumulator_x = Zero, !.accumulator_y = Zero,
                          !.accumulator_wheel = Zero,
                          !.remainder_x = Zero, !.remainder_y = Zero,
                          !.snap_state = 0, !.snap_deviation = Zero],
     smoothing |-> sm]

activate(st, sm) ==
    [state |-> [st EXCEPT !.active = TRUE,
                          !.accumulator_x = Zero, !.accumulator_y = Zero,
                          !.accumulator_wheel = Zero,
                          !.remainder_x = Zero, !.remainder_y = Zero,
                          !.snap_state = 0, !.snap_deviation = Zero],
     smoothing |-> reset(sm)]

\* mutant of deactivate: it also throws the pending motion away
deactivate_clearing(st) ==
    [st EXCEPT !.active = FALSE, !.accumulator_x = Zero, !.accumulator_y = Zero]

deactivate(st) == [st EXCEPT !.active = FALSE]

add_mouse_movement(st, delta_x, delta_y) ==
    IF st.active
    THEN [st EXCEPT !.accumulator_x = RAdd(@, delta_x),
                    !.accumulator_y = RAdd(@, delta_y)]
    ELSE st

add_wheel_input(st, delta) ==
    IF st.active THEN [st EXCEPT !.accumulator_wheel = RAdd(@, delta)] ELSE st

\* mutant of attenuate: the deviation is pulled across zero
attenuate_across(dev, along, ratio) ==
    IF RGt(dev, Zero) THEN RSub(dev, RMul(RAbs(along), ratio))
    ELSE IF RLt(dev, Zero) THEN RAdd(dev, RMul(RAbs(along), ratio))
    ELSE dev

\* lines 189-192 and 205-208: the deviation is pulled toward zero, never across it
attenuate(dev, along, ratio) ==
    IF RGt(dev, Zero) THEN RMax(Zero, RSub(dev, RMul(RAbs(along), ratio)))
    ELSE IF RLt(dev, Zero) THEN RMin(Zero, RAdd(dev, RMul(RAbs(along), ratio)))
    ELSE dev

\* lines 194-201: X-snapped, with the deviation after this tick
snap_x_locked(c, st, sm, x, y, dev) ==
    IF RGt(RAbs(dev), snap_threshold(c))
    THEN [state |-> [st EXCEPT !.snap_state = 2, !.snap_deviation = Zero],
          smoothing |-> reset(sm), x |-> Zero, y |-> y]
    ELSE [state |-> [st EXCEPT !.snap_deviation = dev], smoothing |-> sm, x |-> x, y |-> Zero]

\* lines 210-217: Y-snapped, with the deviation after this tick
snap_y_locked(c, st, sm, x, y, dev) ==
    IF RGt(RAbs(dev), snap_threshold(c))
    THEN [state |-> [st EXCEPT !.snap_state = 1, !.snap_deviation = Zero],
          smoothing |-> reset(sm), x |-> x, y |-> Zero]
    ELSE [state |-> [st EXCEPT !.snap_deviation = dev], smoothing |-> sm, x |-> Zero, y |-> y]

apply_axis_snapping(c, st, sm, x, y) ==
    IF st.snap_state = 0 THEN
        IF RGt(RAbs(x), RAbs(y))
        THEN [state |-> [st EXCEPT !.snap_state = 1], smoothing |-> sm, x |-> x, y |-> Zero]
        ELSE IF RLt(RAbs(x), RAbs(y))
        THEN [state |-> [st EXCEPT !.snap_state = 2], smoothing |-> sm, x |-> Zero, y |-> y]
        ELSE [state |-> st, smoothing |-> sm, x |-> x, y |-> y]
    ELSE IF st.snap_state = 1 THEN
        snap_x_locked(c, st, sm, x, y, attenuate(RAdd(st.snap_deviation, y), x, snap_ratio(c)))
    ELSE IF st.snap_state = 2 THEN
        snap_y_locked(c, st, sm, x, y, attenuate(RAdd(st.snap_deviation, x), y, snap_ratio(c)))
    ELSE [state |-> st, smoothing |-> sm, x |-> x, y |-> y]

\* mutant of scale_factor: the curve is the linear one below accel_r as well
scale_factor_linear(c, speed_offset) == RAdd(RMul(accel_q(c), speed_offset), accel_r(c))

\* lines 228-231: the speed the curve gives for a speed that is speed_offset off accel_r
scale_factor(c, speed_offset) ==
    IF RLt(speed_offset, Zero)
    THEN RAdd(RAdd(RMul(accel_q(c), speed_offset), accel_r(c)),
              RMul(accel_p(c), RMul(speed_offset, speed_offset)))
    ELSE RAdd(RMul(accel_q(c), speed_offset), accel_r(c))

\* line 235
scaled(x, y, factor) == <<RMul(x, factor), RMul(y, factor)>>

\* lines 224-235, with the speed of line 223
accelerated(c, x, y, speed) ==
    IF speed = Zero THEN <<x, y>>
    ELSE scaled(x, y, RDiv(scale_factor(c, RSub(speed, accel_r(c))), speed))

apply_acceleration(c, x, y) == accelerated(c, x, y, sqrt(RAdd(RMul(x, x), RMul(y, y))))

\* mutant of carry: the rounding error is not kept for the next tick
carry_dropped(total, rounded) == Zero

\* lines 170-171: the rounding error kept for the next tick
carry(total, rounded) == RSub(total, RInt(rounded))

\* mutant of sampled: the vertical axis is not inverted
sampled_upright(pushed) ==
    [smoothing |-> pushed, smoothed_x |-> mean_x(pushed), smoothed_y |-> mean_y(pushed)]

\* process_scroll, lines 143-145: the accumulators are sampled into the window
sampled(pushed) ==
    [smoothing |-> pushed, smoothed_x |-> mean_x(pushed), smoothed_y |-> RNeg(mean_y(pushed))]

process_scroll_sample(c, st, sm) ==
    sampled(push(sm, max_size(c), st.accumulator_x, st.accumulator_y))

\* lines 151-153
snapped(c, st, sm, x, y) ==
    IF snap_on(c) THEN apply_axis_snapping(c, st, sm, x, y)
    ELSE [state |-> st, smoothing |-> sm, x |-> x, y |-> y]

\* lines 155-157
accelerated_if_on(c, x, y) ==
    IF acceleration_on(c) /\ (x # Zero \/ y # Zero) THEN apply_acceleration(c, x, y)
    ELSE <<x, y>>

\* lines 167-173, with the sums of lines 164-165
rounded(st, sm, shaped, total_x, total_y, rounded_x, rounded_y) ==
    [state |-> [st EXCEPT !.remainder_x = carry(total_x, rounded_x),
                          !.remainder_y = carry(total_y, rounded_y)],
     smoothing |-> sm,
     shaped |-> shaped,
     ret |-> <<rounded_x, rounded_y>>]

\* lines 164-173, with the shaped pair of lines 160-161
carried(st, sm, shaped, total_x, total_y) ==
    rounded(st, sm, shaped, total_x, total_y, round(total_x), round(total_y))

\* lines 163-173, with the shaped pair of lines 160-161
remaindered(st, sm, shaped) ==
    carried(st, sm, shaped, RAdd(shaped[1], st.remainder_x), RAdd(shaped[2], st.remainder_y))

\* lines 159-173, with the pair acceleration left
sensitised(c, st, sm, pair) == remaindered(st, sm, scaled(pair[1], pair[2], sensitivity(c)))

\* lines 155-173, with the outcome of the snapping step
shaped_from(c, snap) ==
    sensitised(c, snap.state, snap.smoothing, accelerated_if_on(c, snap.x, snap.y))

\* process_scroll, lines 148-173: reset, snapping, acceleration, sensitivity, rounding
process_scroll_shape(c, st, sm, smoothed_x, smoothed_y) ==
    shaped_from(c, snapped(c, [st EXCEPT !.accumulator_x = Zero, !.accumulator_y = Zero],
                           sm, smoothed_x, smoothed_y))

\* process_scroll, from a sample
process_scroll_from(c, st, sample) ==
    process_scroll_shape(c, st, sample.smoothing, sample.smoothed_x, sample.smoothed_y)

process_scroll(c, st, sm) == process_scroll_from(c, st, process_scroll_sample(c, st, sm))

get_wheel_delta(st) ==
    [state |-> [st EXCEPT !.accumulator_wheel = Zero], ret |-> st.accumulator_wheel]

-----------------------------------------------------------------------------
(* Configurations *)

\* the end-to-end configuration of the scroll engine: nothing shapes the motion
PlainTexture ==
    [sensitivity |-> RInt(1), refreshInterval |-> 10, smoothingWindowMaxSize |-> 1,
     snapOnByDefault |-> FALSE, snapRatio |-> Rat(1, 2), snapThreshold |-> RInt(1),
     accelerationOn |-> FALSE, accelerationBlend |-> RInt(1), accelerationScale |-> RInt(200)]

EngineConfigs ==
    { PlainTexture,
      [PlainTexture EXCEPT !.sensitivity = Rat(1, 2), !.snapOnByDefault = TRUE],
      [PlainTexture EXCEPT !.smoothingWindowMaxSize = 2, !.snapOnByDefault = TRUE,
                           !.accelerationOn = TRUE],
      [PlainTexture EXCEPT !.sensitivity = Rat(3, 4), !.accelerationOn = TRUE] }

\* the amounts one add_mouse_movement / add_wheel_input call brings
MotionDeltas == -1 .. 1
WheelDeltas == {Rat(3, 2), Rat(-1, 2)}

\* the [Hotkeys] section; holdDuration is in milliseconds, like the clock
PlainHotkeys ==
    [hotkey1 |-> "MButton", hotkey2 |-> "F2", panicButton |-> "esc",
     mode |-> "ONE_KEY_TOGGLE", holdDuration |-> 1]

Modes == {"ONE_KEY_TOGGLE", "ONE_KEY_MOMENTARY", "ON_OFF"}

\* the configurations of the daemon: HK1 a mouse button or a key, in every mode
DaemonConfigs ==
    { [PlainHotkeys EXCEPT !.hotkey1 = h, !.mode = m] @@ PlainTexture :
        h \in {"MButton", "F1"}, m \in Modes }

-----------------------------------------------------------------------------
(* The daemon: configuration, key codes, events *)

HOTKEY1(c) == c.hotkey1
HOTKEY2(c) == c.hotkey2
PANIC_BUTTON(c) == c.panicButton
MODE(c) == c.mode
\* in milliseconds: the code compares seconds with seconds
HOLD_DURATION(c) == c.holdDuration

None == "None"

\* dict.get(key)
Get(map, key) == IF key \in DOMAIN map THEN map[key] ELSE None

KEY_NAME_TO_CODE == [F1 |-> "KEY_F1", F2 |-> "KEY_F2", esc |-> "KEY_ESC"]

MOUSE_BUTTON_CODES ==
    [LButton |-> "BTN_LEFT", RButton |-> "BTN_RIGHT", MButton |-> "BTN_MIDDLE"]

\* line 260: the mouse button of that name or else the key of that name
target_hotkey_code(c) ==
    IF Get(MOUSE_BUTTON_CODES, HOTKEY1(c)) # None
    THEN Get(MOUSE_BUTTON_CODES, HOTKEY1(c))
    ELSE Get(KEY_NAME_TO_CODE, HOTKEY1(c))

hotkey1_code(c) == Get(KEY_NAME_TO_CODE, HOTKEY1(c))
hotkey2_code(c) == IF HOTKEY2(c) # "" THEN Get(KEY_NAME_TO_CODE, HOTKEY2(c)) ELSE None
panic_code(c) == IF PANIC_BUTTON(c) # "" THEN Get(KEY_NAME_TO_CODE, PANIC_BUTTON(c)) ELSE None

Event(type, code, value) == [type |-> type, code |-> code, value |-> value]
NoEvent == Event("none", "none", 0)
\* UInput.syn()
syn == Event("EV_SYN", "SYN_REPORT", 0)

\* what the grabbed mouse delivers: the middle button down, up and repeating, the
\* left button down, motion on both axes, the wheel
MouseEvents ==
    { Event("EV_KEY", "BTN_MIDDLE", v) : v \in {0, 1, 2} }
        \cup { Event("EV_KEY", "BTN_LEFT", 1),
               Event("EV_REL", "REL_X", 1), Event("EV_REL", "REL_Y", -1),
               Event("EV_REL", "REL_WHEEL", 1) }

\* what the keyboard delivers: the three configured keys down, up and repeating
KeyCodes == {"KEY_F1", "KEY_F2", "KEY_ESC"}
KeyValues == {0, 1, 2}

IsMotion(e) == e.type = "EV_REL" /\ e.code \in {"REL_X", "REL_Y"}
IsScroll(e) == e.type = "EV_REL" /\ e.code \in {"REL_WHEEL", "REL_HWHEEL"}
IsHotkey(c, e) == e.type = "EV_KEY" /\ e.code = target_hotkey_code(c)

\* the writes one call makes on the virtual device, in order
replay_event(event) == <<event, syn>>

scroll_events(scroll_x, scroll_y) ==
    (IF scroll_x # 0 THEN <<Event("EV_REL", "REL_HWHEEL", scroll_x)>> ELSE <<>>)
        \o (IF scroll_y # 0 THEN <<Event("EV_REL", "REL_WHEEL", scroll_y)>> ELSE <<>>)

send_scroll(scroll_x, scroll_y) == scroll_events(scroll_x, scroll_y) \o <<syn>>

\* lines 282-285: the click a tap stands for
click(code) == <<Event("EV_KEY", code, 1), syn, Event("EV_KEY", code, 0), syn>>

-----------------------------------------------------------------------------
(* The daemon as constructed and as started *)

MouseIdle ==
    [pc |-> "read", event |-> NoEvent, pending |-> <<>>, wrote |-> <<>>,
     quiet |-> FALSE, drag |-> FALSE]

TickerIdle == [pc |-> "check", smoothed |-> <<Zero, Zero>>, pending |-> <<>>, then |-> "check"]

NoTap == [armed |-> FALSE, moved |-> FALSE, active |-> FALSE, scrolled |-> FALSE]

\* self.mouse_device = None; the handles are numbered from 1
NoDevice == 0

\* InputDevice.ungrab() on the daemon's handle; on None and on a handle that holds
\* no grab it raises, and every caller passes
ungrab(h, device) == [h EXCEPT !.grabbed = @ \ {device}]

\* the handle is closed, which is what happens to an InputDevice that is collected:
\* the kernel drops the grab it held
closed(h, device) == [h EXCEPT !.open = @ \ {device}, !.grabbed = @ \ {device}]

\* lines 189 and 211: the handle opened and grabbed at construction
FirstHandle == [made |-> 1, open |-> {1}, grabbed |-> {1}]

\* SmoothScrollDaemon.__init__
Constructed ==
    /\ mouse_device = 1
    /\ handles = FirstHandle
    /\ stopping = "no"
    /\ hotkey1_pressed = FALSE
    /\ hotkey2_pressed = FALSE
    /\ button_press_time = 0
    /\ is_holding = FALSE
    /\ mouse = MouseIdle
    /\ ticker = TickerIdle
    /\ uinput = [held |-> TRUE, open |-> TRUE, report |-> <<>>]
    /\ tap = NoTap

\* time.time() when the daemon starts: long after the epoch
Boot(c) == HOLD_DURATION(c) + 1

-----------------------------------------------------------------------------
(* The engine driven call by call *)

NoCall == [op |-> "init", ret |-> <<0, 0>>, wheel |-> Zero, snap_before |-> 0, dirty |-> FALSE]

\* the state a call starts from holds something of every kind an activation would
\* have to clear: pending motion, a carried remainder, a snap decision, a sample
Dirty ==
    /\ state.accumulator_x # Zero \/ state.accumulator_y # Zero
    /\ state.remainder_x # Zero \/ state.remainder_y # Zero
    /\ state.snap_state # 0
    /\ smoothing.window_x # <<>>

Called(op) == [NoCall EXCEPT !.op = op, !.snap_before = state.snap_state, !.dirty = Dirty]
NoTally == [n |-> 0, moved |-> 0, drift |-> <<Zero, Zero>>]

InitEngine ==
    /\ cfg \in EngineConfigs
    /\ state = ScrollState
    /\ smoothing = SmoothingWindow
    /\ lastCall = NoCall
    /\ tally = NoTally
    /\ Constructed
    /\ running = FALSE
    /\ now = 0

Within(a, bound) == ~RGt(RAbs(a), RInt(bound))

Activated(r) ==
    /\ state' = r.state
    /\ smoothing' = r.smoothing
    /\ lastCall' = Called("activate")
    /\ tally' = NoTally
    /\ UNCHANGED <<cfg, daemonVars>>

CallActivate ==
    /\ Activated(activate(state, smoothing))

CallDeactivate ==
    /\ state' = deactivate(state)
    /\ lastCall' = Called("deactivate")
    /\ UNCHANGED <<cfg, smoothing, tally, daemonVars>>

CallAddMotion ==
    \E dx \in MotionDeltas, dy \in MotionDeltas :
        /\ tally.moved + Abs(dx) + Abs(dy) <= MaxMotion
        /\ state' = add_mouse_movement(state, RInt(dx), RInt(dy))
        /\ lastCall' = Called("add_mouse_movement")
        /\ tally' = [tally EXCEPT !.moved = IF state.active THEN @ + Abs(dx) + Abs(dy) ELSE @]
        /\ UNCHANGED <<cfg, smoothing, daemonVars>>

CallAddWheel ==
    \E d \in WheelDeltas :
        /\ Within(RAdd(state.accumulator_wheel, d), MaxWheel)
        /\ state' = add_wheel_input(state, d)
        /\ lastCall' = Called("add_wheel_input")
        /\ UNCHANGED <<cfg, smoothing, tally, daemonVars>>

Processed(r) ==
    /\ state' = r.state
    /\ smoothing' = r.smoothing
    /\ lastCall' = [Called("process_scroll") EXCEPT !.ret = r.ret]
    /\ tally' = [n |-> tally.n + 1, moved |-> tally.moved,
                 drift |-> <<RAdd(tally.drift[1], RSub(r.shaped[1], RInt(r.ret[1]))),
                             RAdd(tally.drift[2], RSub(r.shaped[2], RInt(r.ret[2])))>>]
    /\ UNCHANGED <<cfg, daemonVars>>

CallProcessScroll ==
    /\ tally.n < MaxTicks
    /\ Processed(process_scroll(cfg, state, smoothing))

CallGetWheelDelta ==
    /\ state' = get_wheel_delta(state).state
    /\ lastCall' = [Called("get_wheel_delta") EXCEPT !.wheel = get_wheel_delta(state).ret]
    /\ UNCHANGED <<cfg, smoothing, tally, daemonVars>>

NextEngine ==
    \/ CallActivate
    \/ CallDeactivate
    \/ CallAddMotion
    \/ CallProcessScroll

SpecEngine == InitEngine /\ [][NextEngine]_vars

\* the wheel passthrough of the engine, driven call by call
NextWheel ==
    \/ CallActivate
    \/ CallDeactivate
    \/ CallAddWheel
    \/ CallGetWheelDelta

SpecWheel == InitEngine /\ [][NextWheel]_vars

-----------------------------------------------------------------------------
(* The engine fed by a stream of motion, with snapping on *)

\* snapRatio 0.5 and snapThreshold 10, one sample or two in the window
SnapConfigs ==
    { [PlainTexture EXCEPT !.snapOnByDefault = TRUE, !.snapThreshold = RInt(10),
                           !.smoothingWindowMaxSize = w] : w \in {1, 2} }

\* the motion of the steady stream, and a motion mostly along the other axis
SteadyDelta == <<5, 1>>
StreamDeltas == {SteadyDelta, <<1, 5>>}

\* stream driver: whether every motion since activate() was the steady one, the
\* motions since the last tick, the vertical motion since activate()
NoStream == [steady |-> TRUE, pending |-> 0, risen |-> 0]

InitSnap ==
    /\ cfg \in SnapConfigs
    /\ state = ScrollState
    /\ smoothing = SmoothingWindow
    /\ lastCall = NoCall
    /\ tally = NoStream
    /\ Constructed
    /\ running = FALSE
    /\ now = 0

StreamActivated(r) ==
    /\ state' = r.state
    /\ smoothing' = r.smoothing
    /\ lastCall' = Called("activate")
    /\ tally' = NoStream
    /\ UNCHANGED <<cfg, daemonVars>>

StreamActivate ==
    /\ ~state.active
    /\ StreamActivated(activate(state, smoothing))

StreamMotion ==
    \E d \in StreamDeltas :
        /\ state.active
        /\ tally.pending < MaxBurst
        /\ state' = add_mouse_movement(state, RInt(d[1]), RInt(d[2]))
        /\ lastCall' = Called("add_mouse_movement")
        /\ tally' = [steady |-> tally.steady /\ d = SteadyDelta,
                     pending |-> tally.pending + 1,
                     risen |-> IF tally.risen + Abs(d[2]) > MaxRise THEN MaxRise
                               ELSE tally.risen + Abs(d[2])]
        /\ UNCHANGED <<cfg, smoothing, daemonVars>>

StreamTicked(r) ==
    /\ state' = r.state
    /\ smoothing' = r.smoothing
    /\ lastCall' = [Called("process_scroll") EXCEPT !.ret = r.ret]
    /\ tally' = [tally EXCEPT !.pending = 0]
    /\ UNCHANGED <<cfg, daemonVars>>

StreamTick ==
    /\ state.active
    /\ StreamTicked(process_scroll(cfg, state, smoothing))

StreamDeactivate ==
    /\ state.active
    /\ state' = deactivate(state)
    /\ lastCall' = Called("deactivate")
    /\ UNCHANGED <<cfg, smoothing, tally, daemonVars>>

NextSnap ==
    \/ StreamActivate
    \/ StreamMotion
    \/ StreamTick
    \/ StreamDeactivate

SpecSnap == InitSnap /\ [][NextSnap]_vars

\* a stream: while the engine is active, motion keeps arriving and the tick
\* driver keeps ticking (time.sleep returns)
\* weak fairness of StreamMotion and of StreamTick, written out with their
\* enabling conditions; and the engine is engaged whenever it is found inactive
SpecSnapFair ==
    /\ SpecSnap
    /\ WF_vars(StreamActivate)
    /\ []<>(~(state.active /\ tally.pending < MaxBurst)) \/ []<><<StreamMotion>>_vars
    /\ []<>(~state.active) \/ []<><<StreamTick>>_vars

-----------------------------------------------------------------------------
(* The acceleration curve, applied to one motion after the other *)

\* blend below, at and above 1; scale 200 and 1 with the refresh interval of
\* 10 ms: accel_r is 2 and 0.01
CurveConfigs ==
    { [PlainTexture EXCEPT !.accelerationOn = TRUE, !.accelerationBlend = b,
                           !.accelerationScale = sc] :
        b \in {Rat(1, 2), RInt(1), RInt(2)}, sc \in {RInt(200), RInt(1)} }

\* the components handed to _apply_acceleration: means of one or two samples
CurveInputs == { Rat(k, 2) : k \in (-2 * MaxSpeed) .. (2 * MaxSpeed) }

InitCurve ==
    /\ cfg \in CurveConfigs
    /\ state = ScrollState
    /\ smoothing = SmoothingWindow
    /\ lastCall = [NoCall EXCEPT !.op = "init"]
    /\ tally = NoTally
    /\ Constructed
    /\ running = FALSE
    /\ now = 0

\* _apply_acceleration(x, y), with the speed of line 223 and what it returns
Accelerated(x, y, speed, out) ==
    /\ lastCall' = [op |-> "apply_acceleration", x |-> x, y |-> y, speed |-> speed,
                    factor |-> scale_factor(cfg, RSub(speed, accel_r(cfg))), out |-> out]
    /\ UNCHANGED <<cfg, engineVars, tally, daemonVars>>

\* lines 155-157: process_scroll applies the curve to a motion that is not (0, 0)
CallAccelerate ==
    \E x \in CurveInputs, y \in CurveInputs :
        /\ x # Zero \/ y # Zero
        /\ Accelerated(x, y, sqrt(RAdd(RMul(x, x), RMul(y, y))), accelerated_if_on(cfg, x, y))

\* _apply_acceleration called on (0, 0): lines 224-225
CallAccelerateNothing ==
    /\ Accelerated(Zero, Zero, Zero, apply_acceleration(cfg, Zero, Zero))

NextCurve ==
    \/ CallAccelerate
    \/ CallAccelerateNothing

SpecCurve == InitCurve /\ [][NextCurve]_vars

-----------------------------------------------------------------------------
(* The daemon: the hotkey handlers of the keyboard reader *)

\* the part of the daemon a key handler works on
Handled(st, sm, h1, h2) ==
    [state |-> st, smoothing |-> sm, hotkey1_pressed |-> h1, hotkey2_pressed |-> h2]

activated(d) ==
    [d EXCEPT !.state = activate(d.state, d.smoothing).state,
              !.smoothing = activate(d.state, d.smoothing).smoothing]

deactivated(d) == [d EXCEPT !.state = deactivate(@)]

handle_one_key_toggle(d, key_code, hk1, is_press) ==
    IF key_code = hk1 /\ is_press /\ ~d.hotkey1_pressed
    THEN IF is_active(d.state)
         THEN deactivated([d EXCEPT !.hotkey1_pressed = TRUE])
         ELSE activated([d EXCEPT !.hotkey1_pressed = TRUE])
    ELSE IF key_code = hk1 /\ ~is_press
    THEN [d EXCEPT !.hotkey1_pressed = FALSE]
    ELSE d

\* mutant of handle_one_key_momentary: whatever is not a press counts as the release
handle_one_key_momentary_hasty(d, key_code, hk1, is_press, is_release) ==
    IF key_code # hk1 THEN d
    ELSE IF is_press /\ ~d.hotkey1_pressed
    THEN activated([d EXCEPT !.hotkey1_pressed = TRUE])
    ELSE IF ~is_press /\ d.hotkey1_pressed
    THEN deactivated([d EXCEPT !.hotkey1_pressed = FALSE])
    ELSE d

handle_one_key_momentary(d, key_code, hk1, is_press, is_release) ==
    IF key_code # hk1 THEN d
    ELSE IF is_press /\ ~d.hotkey1_pressed
    THEN activated([d EXCEPT !.hotkey1_pressed = TRUE])
    ELSE IF is_release /\ d.hotkey1_pressed
    THEN deactivated([d EXCEPT !.hotkey1_pressed = FALSE])
    ELSE d

\* mutant of handle_on: the latch of HK1 is never cleared
handle_on_sticky(d, key_code, hk1, is_press) ==
    IF key_code = hk1 /\ is_press /\ ~d.hotkey1_pressed
    THEN activated([d EXCEPT !.hotkey1_pressed = TRUE])
    ELSE d

\* lines 393-398: the HK1 half of _handle_on_off
handle_on(d, key_code, hk1, is_press) ==
    IF key_code = hk1 /\ is_press /\ ~d.hotkey1_pressed
    THEN activated([d EXCEPT !.hotkey1_pressed = TRUE])
    ELSE IF key_code = hk1 /\ ~is_press
    THEN [d EXCEPT !.hotkey1_pressed = FALSE]
    ELSE d

\* lines 400-405: the HK2 half of _handle_on_off
handle_off(d, key_code, hk2, is_press) ==
    IF hk2 # None /\ key_code = hk2 /\ is_press /\ ~d.hotkey2_pressed
    THEN deactivated([d EXCEPT !.hotkey2_pressed = TRUE])
    ELSE IF hk2 # None /\ key_code = hk2 /\ ~is_press
    THEN [d EXCEPT !.hotkey2_pressed = FALSE]
    ELSE d

handle_on_off(d, key_code, hk1, hk2, is_press) ==
    handle_off(handle_on(d, key_code, hk1, is_press), key_code, hk2, is_press)

\* lines 352-360: the dispatch on the mode
handle_by_mode(c, d, key_code, is_press, is_release) ==
    IF MODE(c) = "ONE_KEY_TOGGLE"
    THEN handle_one_key_toggle(d, key_code, hotkey1_code(c), is_press)
    ELSE IF MODE(c) = "ONE_KEY_MOMENTARY"
    THEN handle_one_key_momentary(d, key_code, hotkey1_code(c), is_press, is_release)
    ELSE IF MODE(c) = "ON_OFF"
    THEN handle_on_off(d, key_code, hotkey1_code(c), hotkey2_code(c), is_press)
    ELSE d

\* lines 347-350: the test that sends a key event to stop() instead
is_panic(c, key_code, key_value) ==
    panic_code(c) # None /\ key_code = panic_code(c) /\ key_value = 1

-----------------------------------------------------------------------------
(* The daemon: what is observed of a run *)

\* the engine was active at some moment since the HK1 button went down
Noted(t, st) == IF t.armed THEN [t EXCEPT !.active = @ \/ st.active] ELSE t

\* the engine stayed inactive while the mouse reader's event was being handled
Undisturbed(m, st) == IF m.pc = "read" THEN m ELSE [m EXCEPT !.quiet = @ /\ ~st.active]

\* the mouse reader takes a new event
Begin(e) == [MouseIdle EXCEPT !.event = e, !.quiet = ~state.active /\ ~is_holding]

-----------------------------------------------------------------------------
(* The daemon: start-up, clock, shutdown *)

\* after start(): the three threads are running
Init ==
    /\ cfg \in DaemonConfigs
    /\ state = ScrollState
    /\ smoothing = SmoothingWindow
    /\ lastCall = NoCall
    /\ tally = NoTally
    /\ Constructed
    /\ running = TRUE
    /\ now = Boot(cfg)

\* main() returns when _process_scroll_thread does; the other threads are daemon threads
Alive == ticker.pc # "exit"

\* UInput.write(e) adds e to the report being assembled; UInput.syn() delivers it
written(u, e) == [u EXCEPT !.report = IF e = syn THEN <<>> ELSE Append(@, e)]

\* time passes; once more than the hold duration has passed since the press, a
\* later instant reads the same on every test the code makes (lines 274, 280, 306)
Clock ==
    /\ Alive
    /\ now - button_press_time <= HOLD_DURATION(cfg)
    /\ now < Boot(cfg) + MaxElapsed
    /\ now' = now + 1
    /\ UNCHANGED <<cfg, grabVars, engineVars, driverVars, running, is_holding, button_press_time,
                   hotkey1_pressed, hotkey2_pressed, mouse, ticker, uinput, tap>>

\* mutant of Stopped: the virtual device is closed and the flag left as it is
Stopped_device_only ==
    /\ handles' = ungrab(handles, mouse_device)
    /\ stopping' = "done"
    /\ uinput' = [uinput EXCEPT !.open = FALSE]
    /\ UNCHANGED <<cfg, engineVars, running, now, is_holding, button_press_time,
                   hotkey1_pressed, hotkey2_pressed, mouse, ticker, tap, mouse_device>>

\* stop(), in one step: the grab is released, the flag cleared and the virtual
\* device closed
Stopped ==
    /\ handles' = ungrab(handles, mouse_device)
    /\ running' = FALSE
    /\ stopping' = "done"
    /\ uinput' = [uinput EXCEPT !.open = FALSE]
    /\ UNCHANGED <<cfg, engineVars, now, is_holding, button_press_time,
                   hotkey1_pressed, hotkey2_pressed, mouse, ticker, tap, mouse_device>>

\* SIGINT or SIGTERM: signal_handler
Signal ==
    /\ Alive /\ running
    /\ Stopped
    /\ UNCHANGED driverVars

-----------------------------------------------------------------------------
(* The daemon: the keyboard reader *)

\* the handler's outcome is stored
Stored(d) ==
    /\ state' = d.state
    /\ smoothing' = d.smoothing
    /\ hotkey1_pressed' = d.hotkey1_pressed
    /\ hotkey2_pressed' = d.hotkey2_pressed
    /\ mouse' = Undisturbed(mouse, d.state)
    /\ tap' = Noted(tap, d.state)
    /\ UNCHANGED <<cfg, grabVars, running, now, is_holding, button_press_time, ticker, uinput>>

\* one EV_KEY event of the keyboard through _handle_key_event
KeyEvent ==
    \E key_code \in KeyCodes, key_value \in KeyValues :
        /\ Alive /\ running
        /\ ~is_panic(cfg, key_code, key_value)
        /\ Stored(handle_by_mode(cfg,
                                 Handled(state, smoothing, hotkey1_pressed, hotkey2_pressed),
                                 key_code, key_value = 1, key_value = 0))
        /\ UNCHANGED driverVars

\* the panic button goes down: stop(), and the keyboard reader exits
KeyPanic ==
    \E key_code \in KeyCodes, key_value \in KeyValues :
        /\ Alive /\ running
        /\ is_panic(cfg, key_code, key_value)
        /\ Stopped
        /\ UNCHANGED driverVars

-----------------------------------------------------------------------------
(* The daemon: the mouse reader, _mouse_reader_loop *)

\* lines 264-266: the next event of the grabbed mouse arrives while the daemon runs
Reads == Alive /\ running /\ mouse.pc = "read"

\* lines 265-266 and 315-316: an event arrives after stop()
MouseReturn ==
    /\ Alive /\ ~running /\ mouse.pc = "read"
    /\ mouse' = [MouseIdle EXCEPT !.pc = "cleanup"]
    /\ is_holding' = FALSE
    /\ tap' = NoTap
    /\ UNCHANGED <<cfg, grabVars, engineVars, driverVars, running, now, button_press_time,
                   hotkey1_pressed, hotkey2_pressed, ticker, uinput>>

\* lines 270-272 and 286: the HK1 button goes down
MousePress ==
    \E e \in MouseEvents :
        /\ Reads /\ IsHotkey(cfg, e) /\ e.value = 1
        /\ button_press_time' = now
        /\ is_holding' = TRUE
        /\ tap' = [NoTap EXCEPT !.armed = TRUE, !.active = state.active]
        /\ UNCHANGED <<cfg, grabVars, engineVars, driverVars, running, now, hotkey1_pressed,
                       hotkey2_pressed, mouse, ticker, uinput>>

\* mutant of Released: the release leaves the engine as it is
Released_engine_left(e, duration) ==
    /\ is_holding' = FALSE
    /\ tap' = NoTap
    /\ UNCHANGED <<state, mouse>>
    /\ UNCHANGED <<cfg, grabVars, smoothing, driverVars, running, now, button_press_time,
                   hotkey1_pressed, hotkey2_pressed, ticker, uinput>>

\* lines 274-286, with the duration of line 274
Released(e, duration) ==
    /\ is_holding' = FALSE
    /\ tap' = NoTap
    /\ IF is_active(state)
       THEN /\ state' = deactivate(state)
            /\ UNCHANGED mouse
       ELSE IF duration < HOLD_DURATION(cfg)
       THEN /\ mouse' = [Begin(e) EXCEPT !.pc = "write",
                                         !.pending = click(target_hotkey_code(cfg))]
            /\ UNCHANGED state
       ELSE UNCHANGED <<state, mouse>>
    /\ UNCHANGED <<cfg, grabVars, smoothing, driverVars, running, now, button_press_time,
                   hotkey1_pressed, hotkey2_pressed, ticker, uinput>>

\* lines 273-286: the HK1 button goes up
MouseRelease ==
    \E e \in MouseEvents :
        /\ Reads /\ IsHotkey(cfg, e) /\ e.value = 0
        /\ Released(e, now - button_press_time)

\* lines 269-286: any other event of the HK1 button is dropped
MouseRepeat ==
    \E e \in MouseEvents :
        /\ Reads /\ IsHotkey(cfg, e) /\ e.value \notin {0, 1}
        /\ UNCHANGED vars

\* lines 289-293, with the outcome of the test of line 291
Dragged(e, drag) ==
    /\ IF drag
       THEN /\ state' = activate(state, smoothing).state
            /\ smoothing' = activate(state, smoothing).smoothing
       ELSE UNCHANGED engineVars
    /\ mouse' = [Begin(e) EXCEPT
                    !.pc = "moving",
                    !.drag = drag /\ IsMotion(e)
                                  /\ now - button_press_time < HOLD_DURATION(cfg)]
    /\ tap' = [Noted(tap, state') EXCEPT !.moved = @ \/ (tap.armed /\ IsMotion(e))]
    /\ UNCHANGED <<cfg, grabVars, driverVars, running, now, is_holding, button_press_time,
                   hotkey1_pressed, hotkey2_pressed, ticker, uinput>>

\* the motion the engine has not consumed yet leaves room for this event
Room(e) ==
    /\ e.code = "REL_X" => RLt(RAbs(state.accumulator_x), RInt(MaxPending))
    /\ e.code = "REL_Y" => RLt(RAbs(state.accumulator_y), RInt(MaxPending))

\* lines 289-293: an EV_REL event; held and inactive, the engine is activated
MouseMotion ==
    \E e \in MouseEvents :
        /\ Reads /\ ~IsHotkey(cfg, e) /\ e.type = "EV_REL"
        /\ Room(e)
        /\ Dragged(e, is_holding /\ ~is_active(state))

\* an event that is neither of the HK1 button nor EV_REL goes to line 305
MouseOther ==
    \E e \in MouseEvents :
        /\ Reads /\ ~IsHotkey(cfg, e) /\ e.type # "EV_REL"
        /\ mouse' = [Begin(e) EXCEPT !.pc = "hold"]
        /\ UNCHANGED <<cfg, grabVars, engineVars, driverVars, running, now, is_holding,
                       button_press_time, hotkey1_pressed, hotkey2_pressed, ticker,
                       uinput, tap>>

\* line 296: is the engine active?
MouseMoving ==
    /\ Alive /\ mouse.pc = "moving"
    /\ mouse' = [mouse EXCEPT !.pc = IF is_active(state) THEN "adding" ELSE "hold"]
    /\ UNCHANGED <<cfg, grabVars, engineVars, driverVars, running, now, is_holding,
                   button_press_time, hotkey1_pressed, hotkey2_pressed, ticker, uinput, tap>>

\* lines 297-301: the delta goes to the engine and the event is swallowed
MouseAdding ==
    /\ Alive /\ mouse.pc = "adding"
    /\ state' = IF mouse.event.code = "REL_X"
                THEN add_mouse_movement(state, RInt(mouse.event.value), Zero)
                ELSE IF mouse.event.code = "REL_Y"
                THEN add_mouse_movement(state, Zero, RInt(mouse.event.value))
                ELSE state
    /\ mouse' = MouseIdle
    /\ UNCHANGED <<cfg, grabVars, smoothing, driverVars, running, now, is_holding,
                   button_press_time, hotkey1_pressed, hotkey2_pressed, ticker, uinput, tap>>

\* lines 305-311: held, inactive and past the hold duration, the engine is
\* activated; the event is replayed either way
MouseHold ==
    /\ Alive /\ mouse.pc = "hold"
    /\ IF is_holding /\ ~is_active(state) /\ now - button_press_time > HOLD_DURATION(cfg)
       THEN /\ state' = activate(state, smoothing).state
            /\ smoothing' = activate(state, smoothing).smoothing
       ELSE UNCHANGED engineVars
    /\ mouse' = [mouse EXCEPT !.pc = "write", !.pending = replay_event(mouse.event)]
    /\ tap' = Noted(tap, state')
    /\ UNCHANGED <<cfg, grabVars, driverVars, running, now, is_holding, button_press_time,
                   hotkey1_pressed, hotkey2_pressed, ticker, uinput>>

\* UInput.write / UInput.syn: the next write of the call in progress
MouseWrite ==
    /\ Alive /\ mouse.pc = "write" /\ uinput.open
    /\ uinput' = written(uinput, Head(mouse.pending))
    /\ mouse' = IF Len(mouse.pending) = 1
                THEN MouseIdle
                ELSE [mouse EXCEPT !.pending = Tail(@),
                                   !.wrote = Append(@, Head(mouse.pending))]
    /\ UNCHANGED <<cfg, grabVars, engineVars, driverVars, running, now, is_holding,
                   button_press_time, hotkey1_pressed, hotkey2_pressed, ticker, tap>>

\* a write on the closed device raises: lines 313-316
MouseWriteFails ==
    /\ Alive /\ mouse.pc = "write" /\ ~uinput.open
    /\ mouse' = [MouseIdle EXCEPT !.pc = "cleanup"]
    /\ is_holding' = FALSE
    /\ tap' = NoTap
    /\ UNCHANGED <<cfg, grabVars, engineVars, driverVars, running, now, button_press_time,
                   hotkey1_pressed, hotkey2_pressed, ticker, uinput>>

\* mutant of MouseCleanup: the engine is left as the reader left it
MouseCleanup_engine_left ==
    /\ Alive /\ mouse.pc = "cleanup"
    /\ is_holding' = FALSE
    /\ handles' = ungrab(handles, mouse_device)
    /\ uinput' = [uinput EXCEPT !.open = FALSE, !.held = FALSE]
    /\ mouse_device' = NoDevice
    /\ mouse' = [mouse EXCEPT !.pc = "sleep"]
    /\ UNCHANGED <<cfg, engineVars, driverVars, running, now, button_press_time,
                   hotkey1_pressed, hotkey2_pressed, ticker, tap, stopping>>

\* _mouse_supervisor_thread, lines 506-522: the reader is back (or the attempt has
\* failed) and the supervisor cleans up
MouseCleanup ==
    /\ Alive /\ mouse.pc = "cleanup"
    /\ state' = deactivate(state)
    /\ is_holding' = FALSE
    /\ handles' = ungrab(handles, mouse_device)
    /\ uinput' = [uinput EXCEPT !.open = FALSE, !.held = FALSE]
    /\ mouse_device' = NoDevice
    /\ mouse' = [mouse EXCEPT !.pc = "sleep"]
    /\ UNCHANGED <<cfg, smoothing, driverVars, running, now, button_press_time,
                   hotkey1_pressed, hotkey2_pressed, ticker, tap, stopping>>

\* the supervisor thread is at that place of _mouse_supervisor_thread
Super(pc) == Alive /\ mouse.pc = pc

\* lines 524-525: time.sleep(1), then back to the loop test
SuperSleep ==
    /\ Super("sleep")
    /\ mouse' = [mouse EXCEPT !.pc = "test"]
    /\ UNCHANGED <<cfg, grabVars, engineVars, driverVars, running, now, is_holding,
                   button_press_time, hotkey1_pressed, hotkey2_pressed, ticker, uinput, tap>>

\* line 480: while self.running
SuperTest ==
    /\ Super("test")
    /\ mouse' = [mouse EXCEPT !.pc = IF running THEN "find" ELSE "exit"]
    /\ UNCHANGED <<cfg, grabVars, engineVars, driverVars, running, now, is_holding,
                   button_press_time, hotkey1_pressed, hotkey2_pressed, ticker, uinput, tap>>

\* lines 483-487: find_mouse_device() opens a new handle, which replaces the one
\* the daemon held, or finds no mouse, the mouse being unplugged (the kernel's
\* device is gone with every grab on it; continue runs the finally clause)
SuperFind ==
    \E found \in BOOLEAN :
        /\ Super("find")
        /\ IF found
           THEN /\ handles.made < MaxHandles
                /\ handles' = [handles EXCEPT !.made = @ + 1, !.open = @ \cup {handles.made + 1}]
                /\ mouse_device' = handles.made + 1
                /\ mouse' = [mouse EXCEPT !.pc = "create"]
           ELSE /\ handles' = [handles EXCEPT !.grabbed = {}]
                /\ mouse_device' = NoDevice
                /\ mouse' = [mouse EXCEPT !.pc = "cleanup"]
        /\ UNCHANGED <<cfg, engineVars, driverVars, running, now, is_holding,
                       button_press_time, hotkey1_pressed, hotkey2_pressed, ticker, uinput,
                       tap, stopping>>

\* lines 491-493: a new virtual device takes the place of the one the daemon held
SuperCreate ==
    /\ Super("create")
    /\ uinput' = [held |-> TRUE, open |-> TRUE, report |-> <<>>]
    /\ mouse' = [mouse EXCEPT !.pc = "grab"]
    /\ UNCHANGED <<cfg, grabVars, engineVars, driverVars, running, now, is_holding,
                   button_press_time, hotkey1_pressed, hotkey2_pressed, ticker, tap>>

\* lines 156-161, called at line 491: UInput() raises, create_uinput_device logs and
\* calls sys.exit(1); SystemExit is no Exception, so line 503 does not catch it and
\* the finally clause runs with SystemExit on its way out
SuperCreateFails ==
    /\ Super("create")
    /\ mouse' = [mouse EXCEPT !.pc = "unwind"]
    /\ UNCHANGED <<cfg, grabVars, engineVars, driverVars, running, now, is_holding,
                   button_press_time, hotkey1_pressed, hotkey2_pressed, ticker, uinput, tap>>

\* lines 506-522, with SystemExit on its way out
SuperUnwind ==
    /\ Super("unwind")
    /\ state' = deactivate(state)
    /\ is_holding' = FALSE
    /\ handles' = ungrab(handles, mouse_device)
    /\ uinput' = [uinput EXCEPT !.open = FALSE, !.held = FALSE]
    /\ mouse_device' = NoDevice
    /\ mouse' = [mouse EXCEPT !.pc = "leave"]
    /\ UNCHANGED <<cfg, smoothing, driverVars, running, now, button_press_time,
                   hotkey1_pressed, hotkey2_pressed, ticker, tap, stopping>>

\* lines 524-525, with SystemExit on its way out: after the sleep the exception
\* leaves _mouse_supervisor_thread, and the thread ends (threading passes over a
\* SystemExit silently; the other threads go on)
SuperLeave ==
    /\ Super("leave")
    /\ mouse' = [mouse EXCEPT !.pc = "exit"]
    /\ UNCHANGED <<cfg, grabVars, engineVars, driverVars, running, now, is_holding,
                   button_press_time, hotkey1_pressed, hotkey2_pressed, ticker, uinput, tap>>

\* line 496: the kernel gives the grab to one handle at a time; while another
\* handle holds it, grab() raises and the supervisor goes to its finally clause
SuperGrab ==
    /\ Super("grab")
    /\ IF handles.grabbed \subseteq {mouse_device}
       THEN /\ handles' = [handles EXCEPT !.grabbed = {mouse_device}]
            /\ mouse' = [mouse EXCEPT !.pc = "read"]
       ELSE /\ mouse' = [mouse EXCEPT !.pc = "cleanup"]
            /\ UNCHANGED handles
    /\ UNCHANGED <<cfg, engineVars, driverVars, running, now, is_holding,
                   button_press_time, hotkey1_pressed, hotkey2_pressed, ticker, uinput, tap,
                   mouse_device, stopping>>

\* the mouse is unplugged: the kernel's device is gone with every grab on it, and
\* read_loop raises in the reader (lines 313-316)
Unplugged ==
    /\ Super("read")
    /\ handles' = [handles EXCEPT !.grabbed = {}]
    /\ mouse' = [MouseIdle EXCEPT !.pc = "cleanup"]
    /\ is_holding' = FALSE
    /\ tap' = NoTap
    /\ UNCHANGED <<cfg, engineVars, driverVars, running, now, button_press_time,
                   hotkey1_pressed, hotkey2_pressed, ticker, uinput, mouse_device, stopping>>

\* an InputDevice the daemon holds no longer is collected at some moment, and
\* closed then
Collected ==
    \E device \in handles.open \ {mouse_device} :
        /\ Alive
        /\ handles' = closed(handles, device)
        /\ UNCHANGED <<cfg, engineVars, driverVars, running, now, is_holding,
                       button_press_time, hotkey1_pressed, hotkey2_pressed, mouse, ticker,
                       uinput, tap, mouse_device, stopping>>

-----------------------------------------------------------------------------
(* The daemon: signal_handler and stop(), line by line *)

\* a signal arrives (signal_handler starts) or the panic button goes down (stop()
\* starts)
StopBegins ==
    \E via \in {"signal", "stop"} :
        /\ Alive /\ running /\ stopping = "no"
        /\ stopping' = via
        /\ UNCHANGED <<cfg, engineVars, driverVars, running, now, is_holding,
                       button_press_time, hotkey1_pressed, hotkey2_pressed, mouse, ticker,
                       uinput, tap, mouse_device, handles>>

\* lines 220-223 (signal_handler) and 250-253 (stop): ungrab, whatever it raises
StopUngrab ==
    /\ Alive /\ stopping \in {"signal", "stop"}
    /\ handles' = ungrab(handles, mouse_device)
    /\ stopping' = IF stopping = "signal" THEN "stop" ELSE "flag"
    /\ UNCHANGED <<cfg, engineVars, driverVars, running, now, is_holding,
                   button_press_time, hotkey1_pressed, hotkey2_pressed, mouse, ticker,
                   uinput, tap, mouse_device>>

\* lines 254-255
StopFlag ==
    /\ Alive /\ stopping = "flag"
    /\ running' = FALSE
    /\ stopping' = "close"
    /\ UNCHANGED <<cfg, engineVars, driverVars, now, is_holding,
                   button_press_time, hotkey1_pressed, hotkey2_pressed, mouse, ticker,
                   uinput, tap, mouse_device, handles>>

\* line 256
StopClose ==
    /\ Alive /\ stopping = "close"
    /\ uinput' = [uinput EXCEPT !.open = FALSE]
    /\ stopping' = "done"
    /\ UNCHANGED <<cfg, engineVars, driverVars, running, now, is_holding,
                   button_press_time, hotkey1_pressed, hotkey2_pressed, mouse, ticker,
                   tap, mouse_device, handles>>

-----------------------------------------------------------------------------
(* The daemon: the tick driver, _process_scroll_thread *)

\* lines 413-415: the daemon runs and the engine is active
TickCheck ==
    /\ ticker.pc = "check" /\ running /\ is_active(state)
    /\ ticker' = [ticker EXCEPT !.pc = "sample"]
    /\ UNCHANGED <<cfg, grabVars, engineVars, driverVars, running, now, is_holding,
                   button_press_time, hotkey1_pressed, hotkey2_pressed, mouse, uinput, tap>>

\* line 413: the loop ends once running is cleared, and start() returns
TickExit ==
    /\ ticker.pc = "check" /\ ~running
    /\ ticker' = [ticker EXCEPT !.pc = "exit"]
    /\ UNCHANGED <<cfg, grabVars, engineVars, driverVars, running, now, is_holding,
                   button_press_time, hotkey1_pressed, hotkey2_pressed, mouse, uinput, tap>>

\* process_scroll, lines 143-145, with the sample taken
Sampled(r) ==
    /\ smoothing' = r.smoothing
    /\ ticker' = [ticker EXCEPT !.pc = "shape", !.smoothed = <<r.smoothed_x, r.smoothed_y>>]
    /\ UNCHANGED <<cfg, grabVars, state, driverVars, running, now, is_holding,
                   button_press_time, hotkey1_pressed, hotkey2_pressed, mouse, uinput, tap>>

TickSample ==
    /\ ticker.pc = "sample"
    /\ Sampled(process_scroll_sample(cfg, state, smoothing))

\* process_scroll, lines 148-173, and lines 420-421, with the outcome of the shaping
Shaped(r) ==
    /\ state' = r.state
    /\ smoothing' = r.smoothing
    /\ ticker' = IF r.ret[1] # 0 \/ r.ret[2] # 0
                 THEN [TickerIdle EXCEPT !.pc = "write", !.then = "wheel",
                                         !.pending = send_scroll(r.ret[1], r.ret[2])]
                 ELSE [TickerIdle EXCEPT !.pc = "wheel"]
    /\ UNCHANGED <<cfg, grabVars, driverVars, running, now, is_holding,
                   button_press_time, hotkey1_pressed, hotkey2_pressed, mouse, uinput, tap>>

TickShape ==
    /\ ticker.pc = "shape"
    /\ Shaped(process_scroll_shape(cfg, state, smoothing, ticker.smoothed[1], ticker.smoothed[2]))

\* lines 424-426, with the outcome of get_wheel_delta
Drained(r) ==
    /\ state' = r.state
    /\ ticker' = IF r.ret # Zero
                 THEN [TickerIdle EXCEPT !.pc = "write", !.pending = send_scroll(0, int(r.ret))]
                 ELSE TickerIdle
    /\ UNCHANGED <<cfg, grabVars, smoothing, driverVars, running, now, is_holding,
                   button_press_time, hotkey1_pressed, hotkey2_pressed, mouse, uinput, tap>>

TickWheel ==
    /\ ticker.pc = "wheel"
    /\ Drained(get_wheel_delta(state))

\* UInput.write / UInput.syn: the next write of the send_scroll in progress
TickWrite ==
    /\ ticker.pc = "write" /\ uinput.open
    /\ uinput' = written(uinput, Head(ticker.pending))
    /\ ticker' = IF Len(ticker.pending) = 1
                 THEN [TickerIdle EXCEPT !.pc = ticker.then]
                 ELSE [ticker EXCEPT !.pending = Tail(@)]
    /\ tap' = IF tap.armed /\ IsScroll(Head(ticker.pending))
              THEN [tap EXCEPT !.scrolled = TRUE]
              ELSE tap
    /\ UNCHANGED <<cfg, grabVars, engineVars, driverVars, running, now, is_holding,
                   button_press_time, hotkey1_pressed, hotkey2_pressed, mouse>>

\* a write on the closed device raises: lines 432-434, then the loop test
TickWriteFails ==
    /\ ticker.pc = "write" /\ ~uinput.open
    /\ ticker' = TickerIdle
    /\ UNCHANGED <<cfg, grabVars, engineVars, driverVars, running, now, is_holding,
                   button_press_time, hotkey1_pressed, hotkey2_pressed, mouse, uinput, tap>>

-----------------------------------------------------------------------------
(* The daemon: every interleaving of its threads *)

Next ==
    \/ Clock
    \/ Signal
    \/ KeyEvent
    \/ KeyPanic
    \/ MouseReturn
    \/ MousePress
    \/ MouseRelease
    \/ MouseRepeat
    \/ MouseMotion
    \/ MouseOther
    \/ MouseMoving
    \/ MouseAdding
    \/ MouseHold
    \/ MouseWrite
    \/ MouseWriteFails
    \/ MouseCleanup
    \/ SuperSleep
    \/ SuperTest
    \/ TickCheck
    \/ TickExit
    \/ TickSample
    \/ TickShape
    \/ TickWheel
    \/ TickWrite
    \/ TickWriteFails

Spec == Init /\ [][Next]_vars

\* the two readers and the clock, while the daemon runs: every key and every
\* event of the mouse, in every mode
NextButton ==
    \/ Clock
    \/ KeyEvent
    \/ MousePress
    \/ MouseRelease
    \/ MouseRepeat
    \/ MouseMotion
    \/ MouseOther
    \/ MouseMoving
    \/ MouseAdding
    \/ MouseHold
    \/ MouseWrite

SpecButton == Init /\ [][NextButton]_vars

-----------------------------------------------------------------------------
(* The keyboard reader driven event by event, beside the mouse reader *)

\* the hotkey is a key of the keyboard; the panic button is a key of its own or
\* the hotkey itself
KeyConfigs ==
    { [PlainHotkeys EXCEPT !.hotkey1 = "F1", !.mode = m, !.panicButton = p] @@ PlainTexture :
        m \in Modes, p \in {"esc", "F1"} }

NoStroke == [op |-> "init", code |-> None, value |-> 0, seq |-> 0]

\* the event the keyboard delivers next
Stroke(key_code, key_value) ==
    [op |-> "key", code |-> key_code, value |-> key_value, seq |-> 1 - lastCall.seq]

\* the keys that are down once the event has happened
Down(keys, key_code, key_value) ==
    IF key_value = 1 THEN keys \cup {key_code}
    ELSE IF key_value = 0 THEN keys \ {key_code}
    ELSE keys

InitKeys ==
    /\ cfg \in KeyConfigs
    /\ state = ScrollState
    /\ smoothing = SmoothingWindow
    /\ lastCall = NoStroke
    /\ tally = {}
    /\ Constructed
    /\ running = TRUE
    /\ now = Boot(cfg)

\* the keyboard delivers a key going down (again, too), going up (also when it
\* was not seen going down) or, while it is down, repeating
Delivers(key_code, key_value) ==
    /\ Alive /\ running
    /\ key_value = 2 => key_code \in tally
    /\ lastCall' = Stroke(key_code, key_value)
    /\ tally' = Down(tally, key_code, key_value)

\* lines 325-333 and 352-360: an event that is not the panic button going down
KeyStroke ==
    \E key_code \in KeyCodes, key_value \in KeyValues :
        /\ Delivers(key_code, key_value)
        /\ ~is_panic(cfg, key_code, key_value)
        /\ Stored(handle_by_mode(cfg,
                                 Handled(state, smoothing, hotkey1_pressed, hotkey2_pressed),
                                 key_code, key_value = 1, key_value = 0))

\* lines 349-352: the panic button goes down
KeyPanicked ==
    \E key_code \in KeyCodes, key_value \in KeyValues :
        /\ Delivers(key_code, key_value)
        /\ is_panic(cfg, key_code, key_value)
        /\ Stopped

\* lines 326-327: an event arrives after stop() and the keyboard reader ends (after
\* the panic button it has ended already, line 352)
KeyReturn ==
    /\ Alive /\ ~running
    /\ lastCall.op # "exit" /\ ~is_panic(cfg, lastCall.code, lastCall.value)
    /\ lastCall' = [NoStroke EXCEPT !.op = "exit", !.seq = 1 - lastCall.seq]
    /\ UNCHANGED <<cfg, engineVars, tally, daemonVars>>

\* the steps of the main thread once it is inside an iteration or at the loop test
\* of a stopped daemon
TickStep ==
    \/ TickExit
    \/ TickSample
    \/ TickShape
    \/ TickWheel
    \/ TickWrite
    \/ TickWriteFails

NextKeys ==
    \/ KeyStroke
    \/ KeyPanicked
    \/ MouseMotion
    \/ MouseMoving
    \/ MouseAdding
    \/ MouseHold
    \/ MouseWrite

SpecKeys == InitKeys /\ [][NextKeys]_vars

\* the shutdown: the three threads, the panic button and the signal; of the
\* keyboard only the panic button and what follows it is recorded
NextPanic ==
    \/ Signal
    \/ KeyEvent
    \/ KeyPanicked
    \/ KeyReturn
    \/ MouseReturn
    \/ MouseMotion
    \/ MouseMoving
    \/ MouseAdding
    \/ MouseHold
    \/ MouseWrite
    \/ MouseWriteFails
    \/ MouseCleanup
    \/ SuperSleep
    \/ SuperTest
    \/ TickCheck
    \/ TickStep

SpecPanic == InitKeys /\ [][NextPanic]_vars

\* ENABLED <<TickStep>>_vars: the main thread is inside an iteration, or at the
\* loop test of a stopped daemon
TickReady ==
    \/ ticker.pc \in {"sample", "shape", "wheel", "write"}
    \/ ticker.pc = "check" /\ ~running

\* the main thread is scheduled again and again (time.sleep returns, and no call
\* it makes blocks): weak fairness of its steps, WF_vars(TickStep), written out
\* with TickReady for the enabling condition
SpecPanicFair ==
    /\ SpecPanic
    /\ WF_vars(TickExit)
    /\ []<>(~TickReady) \/ []<><<TickStep>>_vars

-----------------------------------------------------------------------------
(* The supervisor of the mouse and the shutdown, line by line *)

\* after start(): the supervisor thread is at its loop test, holding the handle
\* grabbed at construction
InitGrab ==
    /\ cfg = PlainHotkeys @@ PlainTexture
    /\ state = ScrollState
    /\ smoothing = SmoothingWindow
    /\ lastCall = NoCall
    /\ tally = NoTally
    /\ hotkey1_pressed = FALSE
    /\ hotkey2_pressed = FALSE
    /\ button_press_time = 0
    /\ is_holding = FALSE
    /\ mouse = [MouseIdle EXCEPT !.pc = "test"]
    /\ ticker = TickerIdle
    /\ uinput = [held |-> TRUE, open |-> TRUE, report |-> <<>>]
    /\ tap = NoTap
    /\ mouse_device = 1
    /\ handles = FirstHandle
    /\ stopping = "no"
    /\ running = TRUE
    /\ now = Boot(cfg)

NextGrab ==
    \/ SuperTest
    \/ SuperFind
    \/ SuperCreate
    \/ SuperGrab
    \/ MouseReturn
    \/ Unplugged
    \/ MouseCleanup
    \/ SuperSleep
    \/ Collected
    \/ StopBegins
    \/ StopUngrab
    \/ StopFlag
    \/ StopClose
    \/ TickExit

SpecGrab == InitGrab /\ [][NextGrab]_vars

\* the supervisor with its reader at work (the HK1 button, motion, another
\* button), the virtual device failing to be created, and the shutdown
NextSuper ==
    \/ SuperTest
    \/ SuperFind
    \/ SuperCreate
    \/ SuperCreateFails
    \/ SuperGrab
    \/ SuperUnwind
    \/ SuperLeave
    \/ MousePress
    \/ MouseRelease
    \/ MouseMotion
    \/ MouseOther
    \/ MouseMoving
    \/ MouseAdding
    \/ MouseHold
    \/ MouseWrite
    \/ MouseWriteFails
    \/ MouseReturn
    \/ Unplugged
    \/ MouseCleanup
    \/ SuperSleep
    \/ Collected
    \/ StopBegins
    \/ StopUngrab
    \/ StopFlag
    \/ StopClose
    \/ TickExit

SpecSuper == InitGrab /\ [][NextSuper]_vars

\* the steps of the supervisor thread outside its read loop
SuperStep ==
    \/ SuperTest
    \/ SuperFind
    \/ SuperCreate
    \/ SuperCreateFails
    \/ SuperGrab
    \/ SuperUnwind
    \/ SuperLeave
    \/ MouseCleanup
    \/ SuperSleep

\* the steps of stop() once it has been called
StopStep ==
    \/ StopUngrab
    \/ StopFlag
    \/ StopClose

\* the supervisor thread is scheduled again and again, and outside read_loop()
\* no call it makes blocks (time.sleep returns after a second); stop(), once
\* called, runs to its end
SpecSuperFair ==
    /\ SpecSuper
    /\ WF_vars(SuperStep)
    /\ WF_vars(StopStep)

-----------------------------------------------------------------------------
(* The scroll engine: remainder accounting, snapping, activation *)

\* C6: within one activation period, on each axis the sum of the integer ticks
\* returned so far differs from the sum of the un-rounded shaped values by less
\* than 1, and the difference is the carried remainder.
C6_DriftIsRemainder ==
    /\ tally.drift[1] = state.remainder_x
    /\ tally.drift[2] = state.remainder_y
    /\ RLt(RAbs(tally.drift[1]), RInt(1))
    /\ RLt(RAbs(tally.drift[2]), RInt(1))

\* C6 witness: several ticks into an activation with acceleration, a tick was
\* emitted and both axes carry a remainder.
C6_Witness ==
    /\ state.active /\ tally.n >= 2 /\ cfg.accelerationOn
    /\ lastCall.op = "process_scroll" /\ lastCall.ret[1] # 0
    /\ state.remainder_x # Zero /\ state.remainder_y # Zero

\* C7 (as claimed): whenever the engine is inactive, the next process_scroll
\* returns (0, 0) and get_wheel_delta returns 0, whatever happened before.
C7_InactiveEngineIsSilent ==
    ~state.active =>
        /\ process_scroll(cfg, state, smoothing).ret = <<0, 0>>
        /\ get_wheel_delta(state).ret = Zero

\* C8: with snapping on, a tick that starts X-snapped and stays X-snapped returns
\* vertical 0, and one that starts Y-snapped and stays Y-snapped returns
\* horizontal 0.
C8_LockedAxisSilent ==
    (lastCall.op = "process_scroll" /\ snap_on(cfg)) =>
        /\ (lastCall.snap_before = 1 /\ state.snap_state = 1) => lastCall.ret[2] = 0
        /\ (lastCall.snap_before = 2 /\ state.snap_state = 2) => lastCall.ret[1] = 0

\* C8 witness: a tick that started and ended X-snapped, under acceleration, while
\* the vertical axis carries a remainder from before the lock.
C8_Witness ==
    /\ lastCall.op = "process_scroll" /\ snap_on(cfg) /\ acceleration_on(cfg)
    /\ lastCall.snap_before = 1 /\ state.snap_state = 1
    /\ state.remainder_y # Zero

\* C9: right after activate(), from any prior state, the engine is active and
\* accumulators, remainders, snap state, snap deviation and window are cleared.
C9_ActivateClears ==
    lastCall.op = "activate" =>
        /\ state.active
        /\ state.accumulator_x = Zero /\ state.accumulator_y = Zero
        /\ state.accumulator_wheel = Zero
        /\ state.remainder_x = Zero /\ state.remainder_y = Zero
        /\ state.snap_state = 0 /\ state.snap_deviation = Zero
        /\ smoothing.window_x = <<>> /\ smoothing.window_y = <<>>

\* C9 witness: activate() was called on a state with pending motion, a carried
\* remainder, a snap decision and a non-empty window.
C9_Witness == lastCall.op = "activate" /\ lastCall.dirty

\* C10: deactivate() clears active and leaves accumulators, remainders, snap state,
\* snap deviation and the smoothing window as they were.
C10_DeactivateFrame ==
    [][lastCall'.op = "deactivate" =>
          /\ state'.active = FALSE
          /\ state'.accumulator_x = state.accumulator_x
          /\ state'.accumulator_y = state.accumulator_y
          /\ state'.accumulator_wheel = state.accumulator_wheel
          /\ state'.remainder_x = state.remainder_x
          /\ state'.remainder_y = state.remainder_y
          /\ state'.snap_state = state.snap_state
          /\ state'.snap_deviation = state.snap_deviation
          /\ smoothing' = smoothing]_vars

\* C10 witness: deactivate() was called on an active engine with pending motion,
\* a carried remainder, a snap decision and a non-empty window, all still there.
C10_Witness ==
    /\ lastCall.op = "deactivate" /\ lastCall.dirty /\ ~state.active
    /\ Dirty

\* nothing shapes the motion: one sample, no snapping, no acceleration, sensitivity 1
Unshaped(c) ==
    /\ max_size(c) = 1 /\ ~snap_on(c) /\ ~acceleration_on(c)
    /\ sensitivity(c) = RInt(1)

\* C11: with window capacity 1, snapping off, acceleration off and sensitivity 1,
\* a tick on an active engine whose accumulators hold the integers (ax, ay)
\* returns exactly (ax, -ay) and leaves both accumulators and both remainders 0.
C11_PlainTickIsExact ==
    [][(lastCall'.op = "process_scroll" /\ Unshaped(cfg) /\ state.active)
          => /\ RInt(lastCall'.ret[1]) = state.accumulator_x
             /\ RInt(lastCall'.ret[2]) = RNeg(state.accumulator_y)
             /\ state'.accumulator_x = Zero /\ state'.accumulator_y = Zero
             /\ state'.remainder_x = Zero /\ state'.remainder_y = Zero]_vars

\* C11 witness: such a tick returned ticks on both axes, the vertical one inverted.
C11_Witness ==
    /\ lastCall.op = "process_scroll" /\ Unshaped(cfg) /\ state.active
    /\ lastCall.ret[1] > 0 /\ lastCall.ret[2] > 0 /\ tally.n >= 2

-----------------------------------------------------------------------------
(* The daemon: routing of the mouse events, tap, hold and drag *)

\* this step is a write of the mouse reader on the virtual device
MouseWrote ==
    /\ mouse.pc = "write" /\ uinput.open
    /\ mouse'.pc = "read" \/ mouse'.pending # mouse.pending

\* this step is a write of the tick driver on the virtual device
TickerWrote ==
    /\ ticker.pc = "write" /\ uinput.open
    /\ ticker' # ticker

\* this step ends the handling of the mouse reader's event
MouseDone == mouse.pc \notin {"read", "cleanup", "exit"} /\ mouse'.pc = "read"

\* in this step the mouse reader takes the release of the HK1 button
MouseReleased == is_holding /\ ~is_holding' /\ mouse'.pc \notin {"cleanup", "exit"}

\* C1 (as claimed): under every interleaving of the mouse reader, the keyboard
\* reader and the tick driver, no REL_X or REL_Y event read from the real device
\* is written to the virtual device at a moment when the engine is active.
C1_NoMotionReplayedWhileActive ==
    [][(MouseWrote /\ IsMotion(Head(mouse.pending))) => ~is_active(state)]_vars

\* C2 (as claimed): while the engine is inactive and the HK1 button is not held,
\* every event of the mouse other than an HK1 button event is written to the
\* virtual device with the same type, code and value, followed by a sync, and the
\* tick driver writes no wheel event.
C2_PassThroughWhileIdle ==
    [][/\ (MouseDone /\ mouse.quiet /\ ~IsHotkey(cfg, mouse.event))
            => /\ mouse.pc = "write"
               /\ Append(mouse.wrote, Head(mouse.pending)) = <<mouse.event, syn>>
       /\ (TickerWrote /\ IsScroll(Head(ticker.pending)))
            => (is_active(state) \/ is_holding)]_vars

\* C3 (as claimed): when the HK1 button goes down and up less than the hold
\* duration apart with no REL_X or REL_Y event between, the engine was never
\* active between the two, no wheel event was written, and at the release
\* exactly one press and one release of that button, each followed by a sync,
\* are written, the raw events not being replayed.
C3_TapClicks ==
    [][(MouseReleased /\ now - button_press_time < HOLD_DURATION(cfg) /\ ~tap.moved)
          => /\ ~tap.active /\ ~tap.scrolled
             /\ mouse'.pc = "write" /\ mouse'.wrote = <<>>
             /\ mouse'.pending = click(target_hotkey_code(cfg))]_vars

\* C4 (as claimed): after the HK1 button went down, with no motion and no release
\* since, the engine is active once more than the hold duration has passed since
\* the press, whatever other events (if any) are delivered.
C4_HoldActivates ==
    (is_holding /\ ~tap.moved /\ now - button_press_time > HOLD_DURATION(cfg))
        => is_active(state)

\* C5 (as claimed): with the HK1 button held and the engine inactive, the first
\* REL_X or REL_Y event handled before the hold duration has passed activates the
\* engine at once, its delta is added to the accumulator after the reset of the
\* activation, and the event is not replayed.
C5_DragKeepsDelta ==
    [][/\ (mouse.pc = "read" /\ mouse'.drag) => is_active(state')
       /\ (mouse.drag /\ mouse.pc = "moving" /\ mouse'.pc # "moving")
            => mouse'.pc = "adding"
       /\ (mouse.drag /\ mouse.pc = "adding" /\ mouse'.pc # "adding")
            => /\ state'.accumulator_x
                    = RAdd(state.accumulator_x,
                           IF mouse.event.code = "REL_X" THEN RInt(mouse.event.value) ELSE Zero)
               /\ state'.accumulator_y
                    = RAdd(state.accumulator_y,
                           IF mouse.event.code = "REL_Y" THEN RInt(mouse.event.value) ELSE Zero)
               /\ mouse'.pc = "read"]_vars

-----------------------------------------------------------------------------
(* The daemon: the hotkey modes of the keyboard reader *)

\* this step is the keyboard reader's, on the event lastCall' holds
KeyStep == lastCall'.seq # lastCall.seq

\* this step hands an event of that key to the handler of the configured mode
ModeStep(mode, key_code) ==
    /\ KeyStep
    /\ MODE(cfg) = mode
    /\ lastCall'.code = key_code
    /\ ~is_panic(cfg, lastCall'.code, lastCall'.value)

\* the key of this step goes down and was up: a rising edge
Rising == lastCall'.value = 1 /\ lastCall'.code \notin tally

\* C12 (as claimed): in ONE_KEY_TOGGLE every rising edge of HK1 flips active
\* exactly once, and between a press of HK1 and its next release no further event
\* of HK1 (an auto-repeat, a duplicate press without a release) flips it again.
C12_ToggleOncePerPress ==
    [][ModeStep("ONE_KEY_TOGGLE", hotkey1_code(cfg))
          => IF Rising
             THEN state'.active = ~state.active
             ELSE state'.active = state.active]_vars

\* C13: in ONE_KEY_MOMENTARY a press of HK1 leaves the engine active and the
\* matching release leaves it inactive; an auto-repeat while the key is held
\* changes nothing of the engine (no second activation, no reset of the
\* accumulators); a release without a matching press changes nothing.
C13_MomentaryFollowsKey ==
    [][ModeStep("ONE_KEY_MOMENTARY", hotkey1_code(cfg))
          => /\ lastCall'.value = 1 => state'.active
             /\ (lastCall'.value = 0 /\ lastCall'.code \in tally) => ~state'.active
             /\ lastCall'.value = 2 => (state' = state /\ smoothing' = smoothing)
             /\ (lastCall'.value = 0 /\ lastCall'.code \notin tally)
                    => /\ state' = state /\ smoothing' = smoothing
                       /\ hotkey1_pressed' = hotkey1_pressed]_vars

\* C13 witness: HK1 repeats while it is held and the engine holds motion that a
\* second activation would have cleared.
C13_Witness ==
    /\ MODE(cfg) = "ONE_KEY_MOMENTARY"
    /\ lastCall.op = "key" /\ lastCall.code = hotkey1_code(cfg) /\ lastCall.value = 2
    /\ ~is_panic(cfg, lastCall.code, 1)
    /\ state.active /\ state.accumulator_x # Zero

\* C14: in ON_OFF the engine is active after every rising edge of HK1 and
\* inactive after every rising edge of HK2; a release or a repeat of either key
\* never changes active.
C14_OnOffByKey ==
    [][(KeyStep /\ MODE(cfg) = "ON_OFF"
              /\ ~is_panic(cfg, lastCall'.code, lastCall'.value))
          => /\ (Rising /\ lastCall'.code = hotkey1_code(cfg)) => state'.active
             /\ (Rising /\ lastCall'.code = hotkey2_code(cfg)) => ~state'.active
             /\ lastCall'.value # 1 => state'.active = state.active]_vars

\* C14 witness: HK2 went down while HK1 was still held, and the engine is off;
\* HK1 had gone down a second time before.
C14_Witness ==
    /\ MODE(cfg) = "ON_OFF"
    /\ lastCall.op = "key" /\ lastCall.code = hotkey2_code(cfg) /\ lastCall.value = 1
    /\ hotkey1_code(cfg) \in tally /\ hotkey1_pressed /\ hotkey2_pressed
    /\ ~state.active /\ state.accumulator_x # Zero

\* C15: in every mode the panic button going down shuts the daemon down: running
\* becomes false and the handler of the mode does not act on that event (engine
\* and latches stay as they were); running stays false; from then on the tick
\* driver starts no further iteration and leaves its loop at the next loop test,
\* which it reaches, and each read loop returns on the next event it takes.
C15_PanicShutsDown ==
    /\ [][/\ (KeyStep /\ is_panic(cfg, lastCall'.code, lastCall'.value))
                => /\ ~running'
                   /\ state' = state /\ smoothing' = smoothing
                   /\ hotkey1_pressed' = hotkey1_pressed
                   /\ hotkey2_pressed' = hotkey2_pressed
          /\ ~running => ~running'
          /\ (~running /\ ticker.pc = "check" /\ ticker' # ticker) => ticker'.pc = "exit"
          /\ (~running /\ mouse.pc = "read" /\ mouse' # mouse) => mouse'.pc = "cleanup"
          /\ (~running /\ KeyStep)
                => /\ lastCall'.op = "exit"
                   /\ UNCHANGED <<state, smoothing, hotkey1_pressed, hotkey2_pressed>>]_vars
    /\ (~running) ~> (ticker.pc = "exit")

\* C15 witness: the panic button, which is HK1 as well, went down in the middle of
\* an iteration of the tick driver and of an event of the mouse reader; the engine
\* is as it was and both loops have ended.
C15_Witness ==
    /\ lastCall.op = "key" /\ is_panic(cfg, lastCall.code, lastCall.value)
    /\ lastCall.code = hotkey1_code(cfg)
    /\ ~running /\ ticker.pc = "exit" /\ mouse.pc = "exit"
    /\ ~hotkey1_pressed

-----------------------------------------------------------------------------
(* The daemon: the grab of the real mouse *)

\* C16 (as claimed): a grab is held by an open handle only, by at most one handle
\* at any time, and every grabbed handle is ungrabbed before the daemon drops it
\* or replaces it by a newly opened one: the handle of the construction as well
\* as the handle of each attempt of the supervisor.
C16_GrabReleasedBeforeDrop ==
    [][/\ handles'.grabbed \subseteq handles'.open
       /\ Cardinality(handles'.grabbed) <= 1
       /\ (mouse_device # NoDevice /\ mouse_device' # mouse_device)
             => mouse_device \notin handles'.grabbed]_vars

\* C17 (as claimed): once the shutdown by signal or panic button is through, the
\* supervisor takes no new grab, and when the main loop has ended no handle of the
\* real mouse holds a grab, however stop() and the supervisor interleave.
C17_NoGrabAfterShutdown ==
    [][/\ stopping = "done" => handles'.grabbed \subseteq handles.grabbed
       /\ (stopping' = "done" /\ ~Alive') => handles'.grabbed = {}]_vars

-----------------------------------------------------------------------------
(* The daemon: the engine between the mouse reader and the tick driver *)

\* C18 (as claimed): within one activation every motion delta the engine accepts
\* is part of exactly one sample pushed into the window, however add_mouse_movement
\* and the tick interleave: what a tick clears from the accumulators (lines
\* 148-149) is what it pushed (line 143), no more.
C18_NoDeltaLost ==
    [][(ticker.pc = "shape" /\ ticker'.pc # "shape" /\ smoothing.window_x # <<>>)
          => /\ state.accumulator_x = smoothing.window_x[Len(smoothing.window_x)]
             /\ state.accumulator_y = smoothing.window_y[Len(smoothing.window_y)]]_vars

\* the event is neither an event of the HK1 button nor REL_X / REL_Y
Bystander(e) == e # NoEvent /\ ~IsHotkey(cfg, e) /\ ~IsMotion(e)

\* C19 (as claimed): every event the mouse reader takes that is neither an event
\* of the HK1 button nor REL_X / REL_Y (another button, the wheel) is replayed
\* verbatim, whether the engine is active or not and whether HK1 is held or not,
\* and no step of its handling changes the active flag.
C19_BystandersReplayed ==
    [][/\ (MouseDone /\ Bystander(mouse.event))
            => /\ mouse.pc = "write"
               /\ Append(mouse.wrote, Head(mouse.pending)) = <<mouse.event, syn>>
       /\ (mouse'.pc # mouse.pc /\ (Bystander(mouse.event) \/ Bystander(mouse'.event)))
            => is_active(state') = is_active(state)]_vars

-----------------------------------------------------------------------------
(* The scroll engine: the wheel passthrough *)

\* C20 (as claimed): draining the wheel accumulator returns its integer part and
\* keeps its fractional part, so that what has been emitted plus what is kept
\* equals what has been added.
C20_WheelKeepsFraction ==
    [][lastCall'.op = "get_wheel_delta"
          => /\ lastCall'.wheel = RInt(int(state.accumulator_wheel))
             /\ state'.accumulator_wheel
                    = RSub(state.accumulator_wheel, RInt(int(state.accumulator_wheel)))]_vars

-----------------------------------------------------------------------------
(* The daemon: the writers of the virtual device *)

\* the writes since the last sync among those
SinceSync(w) ==
    LET syncs == {i \in 1 .. Len(w) : w[i] = syn}
    IN  IF syncs = {} THEN w
        ELSE SubSeq(w, (CHOOSE i \in syncs : \A j \in syncs : j <= i) + 1, Len(w))

\* the writes are those of one send_scroll: at most one horizontal and one vertical
\* wheel event, in that order, and the sync
OneScroll(w) ==
    /\ w # <<>> /\ Len(w) <= 3 /\ w[Len(w)] = syn
    /\ \A i \in 1 .. Len(w) - 1 : IsScroll(w[i])
    /\ Len(w) = 3 => (w[1].code = "REL_HWHEEL" /\ w[2].code = "REL_WHEEL")

\* C21 (as claimed): the events of one emit operation and its closing sync are
\* never interleaved with a write of another thread: whenever the mouse reader
\* or the tick driver writes, the report the virtual device is assembling holds
\* what that thread has written since its last sync, and nothing else.
C21_WritesSerialized ==
    [][/\ MouseWrote => uinput.report = SinceSync(mouse.wrote)
       /\ TickerWrote => OneScroll(uinput.report \o ticker.pending)]_vars

-----------------------------------------------------------------------------
(* The daemon: the attempts of the supervisor *)

\* what the finally clause of the supervisor leaves of the devices: the HK1
\* button not held, the virtual device closed, both handles None
Unhanded ==
    /\ ~is_holding
    /\ mouse_device = NoDevice
    /\ ~uinput.open /\ ~uinput.held

\* what the finally clause of the supervisor leaves: that, and the engine inactive
Tidy == ~is_active(state) /\ Unhanded

\* C22 (as claimed): a failure to construct the virtual device inside the
\* supervisor loop is fatal to the current attempt only: the cleanup runs and,
\* while running is true, the supervisor starts a new attempt afterwards.
C22_CreateFailureRetried ==
    /\ [][(mouse.pc = "unwind" /\ mouse'.pc # "unwind") => Tidy']_vars
    /\ (mouse.pc = "unwind") ~> (~running \/ mouse.pc = "find")

\* the read loop has ended and the supervisor is at its finally clause: it holds a
\* handle and no other handle kept that one from the grab (without a mouse, line
\* 485, it holds none; a refused grab, line 496, leaves the grab with another)
LoopEnded ==
    /\ mouse.pc = "cleanup"
    /\ mouse_device # NoDevice
    /\ handles.grabbed \subseteq {mouse_device}

-----------------------------------------------------------------------------
(* The scroll engine: the hysteresis of the axis lock *)

\* the deviation moves toward zero by that amount and does not cross zero
TowardZero(dev, amount) ==
    IF RGt(dev, Zero) THEN (IF RGt(dev, amount) THEN RSub(dev, amount) ELSE Zero)
    ELSE IF RLt(dev, Zero) THEN (IF RLt(dev, RNeg(amount)) THEN RAdd(dev, amount) ELSE Zero)
    ELSE Zero

\* what a tick puts out of one component: sensitivity applied, the carried
\* remainder added, rounded (acceleration being off)
Emitted(c, v, remainder) == round(RAdd(RMul(v, sensitivity(c)), remainder))

\* a tick that starts locked: along is the sample's component on the locked axis,
\* across the other one, dev the deviation after this tick; the lock flips
\* exactly when |dev| exceeds the threshold, the deviation is 0 and the window
\* empty then, and only the component across is put out; otherwise only the
\* component along
Hysteresis(locked, other, pushed, dev, out_along, out_across, rem_along, rem_across,
           along, across) ==
    IF RGt(RAbs(dev), snap_threshold(cfg))
    THEN /\ state'.snap_state = other
         /\ state'.snap_deviation = Zero
         /\ smoothing' = SmoothingWindow
         /\ out_along = 0
         /\ out_across = Emitted(cfg, across, rem_across)
    ELSE /\ state'.snap_state = locked
         /\ state'.snap_deviation = dev
         /\ smoothing' = pushed
         /\ out_across = 0
         /\ out_along = Emitted(cfg, along, rem_along)

\* the tick of this step, from the sample it takes (x, y)
HysteresisOf(sample) ==
    /\ state.snap_state = 1
        => Hysteresis(1, 2, sample.smoothing,
                      TowardZero(RAdd(state.snap_deviation, sample.smoothed_y),
                                 RMul(RAbs(sample.smoothed_x), snap_ratio(cfg))),
                      lastCall'.ret[1], lastCall'.ret[2],
                      state.remainder_x, state.remainder_y,
                      sample.smoothed_x, sample.smoothed_y)
    /\ state.snap_state = 2
        => Hysteresis(2, 1, sample.smoothing,
                      TowardZero(RAdd(state.snap_deviation, sample.smoothed_x),
                                 RMul(RAbs(sample.smoothed_y), snap_ratio(cfg))),
                      lastCall'.ret[2], lastCall'.ret[1],
                      state.remainder_y, state.remainder_x,
                      sample.smoothed_y, sample.smoothed_x)

\* every tick follows the hysteresis
SnapHysteresis ==
    [][lastCall'.op = "process_scroll"
          => HysteresisOf(process_scroll_sample(cfg, state, smoothing))]_vars

\* the engine is engaged with snapRatio 0.5 and snapThreshold 10, and every motion
\* since it was engaged was (5, 1)
Steady5 ==
    /\ snap_on(cfg) /\ snap_ratio(cfg) = Rat(1, 2) /\ snap_threshold(cfg) = RInt(10)
    /\ state.active /\ tally.steady

C24_FlipSeen ==
    /\ lastCall.op = "process_scroll" /\ lastCall.snap_before = 1
    /\ state.snap_state = 2

-----------------------------------------------------------------------------
(* The scroll engine: the acceleration curve *)

\* a <= b on rationals
RLe(a, b) == ~RLt(b, a)

\* the call of lastCall was made with a speed below accel_r, and not 0
BelowScale ==
    /\ lastCall.op = "apply_acceleration"
    /\ RGt(lastCall.speed, Zero) /\ RLt(lastCall.speed, accel_r(cfg))

\* the call of lastCall was made with a speed of accel_r or above
AboveScale ==
    /\ lastCall.op = "apply_acceleration"
    /\ RLe(accel_r(cfg), lastCall.speed)

\* for v >= r the curve is the linear function (blend + 1) * (v - r) + r
LinearAbove ==
    AboveScale =>
        lastCall.factor = RAdd(RMul(RAdd(cfg.accelerationBlend, RInt(1)),
                                    RSub(lastCall.speed, accel_r(cfg))),
                               accel_r(cfg))

\* what is returned is (x, y) times (speed the curve gives) / (speed)
AlongInput ==
    (lastCall.op = "apply_acceleration" /\ lastCall.speed # Zero) =>
        /\ lastCall.out[1] = RMul(lastCall.x, RDiv(lastCall.factor, lastCall.speed))
        /\ lastCall.out[2] = RMul(lastCall.y, RDiv(lastCall.factor, lastCall.speed))

\* C25 (as claimed): for every input speed v with 0 < v < r the output speed is
\* greater than v, for v >= r it is (blend + 1) * (v - r) + r, and the direction
\* of (x, y) is preserved: the output is (x, y) times a positive factor.
C25_CurveBoostsSmallMotion ==
    /\ BelowScale => RGt(lastCall.factor, lastCall.speed)
    /\ LinearAbove
    /\ AlongInput
    /\ (lastCall.op = "apply_acceleration" /\ lastCall.speed # Zero)
            => RGt(lastCall.factor, Zero)

\* C25 (amended): for every input speed v with 0 < v < r the output speed is
\* v * (1 - blend * (r - v) / r), which is less than v; for v >= r it is
\* (blend + 1) * (v - r) + r, which is v or more; the output is (x, y) times
\* (output speed) / v, so the direction is preserved where the output speed is
\* positive: for v >= r, and for every v > 0 when blend <= 1.
C25_CurveSlowsSmallMotion ==
    /\ BelowScale =>
          /\ lastCall.factor
                = RMul(lastCall.speed,
                       RSub(RInt(1),
                            RDiv(RMul(cfg.accelerationBlend,
                                      RSub(accel_r(cfg), lastCall.speed)),
                                 accel_r(cfg))))
          /\ RLt(lastCall.factor, lastCall.speed)
          /\ RLe(cfg.accelerationBlend, RInt(1)) => RGt(lastCall.factor, Zero)
    /\ LinearAbove
    /\ AboveScale => RLe(lastCall.speed, lastCall.factor)
    /\ AlongInput

\* C25 witness: a diagonal motion slower than accel_r, with blend 1, came out
\* slower than it went in, in the same direction.
C25_Witness ==
    /\ BelowScale /\ cfg.accelerationBlend = RInt(1)
    /\ lastCall.x # Zero /\ lastCall.y # Zero
    /\ RLt(lastCall.factor, lastCall.speed) /\ RGt(lastCall.factor, Zero)
    /\ lastCall.out # <<lastCall.x, lastCall.y>>

-----------------------------------------------------------------------------
(* The daemon: HK1 on a mouse button *)

\* line 260: HOTKEY1 names a mouse button
ButtonHotkey == Get(MOUSE_BUTTON_CODES, HOTKEY1(cfg)) # None

=============================================================================
